---- MODULE Spec2Model ----
(***************************************************************************)
(* The two drivers of bad_package/interface.py, AutoDiff (forward mode)    *)
(* and ReverseAD (reverse mode), run on the same functions and point.      *)
(*                                                                         *)
(* A user function is a straight-line program over the overloaded          *)
(* operators + and *: a sequence of instructions, each combining two       *)
(* operands (an argument x[i], an earlier intermediate, or a numeric       *)
(* literal), and a returned operand.  Reals are modelled by integers, on   *)
(* which +, * and their derivatives are exact.                             *)
(*                                                                         *)
(* The kernels bad_package/fad.py (DualNumber) and bad_package/rad.py      *)
(* (ReverseMode) are modelled from sections 3, 4.1 and 4.2 of the          *)
(* specification; the drivers are modelled from interface.py.              *)
(***************************************************************************)
EXTENDS Integers, Sequences, FiniteSets, TLC

\* ------------------------------------------------------------------ bounds
MaxFuncs == 2
MaxVars == 2
MaxVal == 2

\* ------------------------------------------------- Python values and None
None == <<>>
Some(v) == <<v>>

PyNum(v) == [kind |-> "num", num |-> v, items |-> <<>>]
PyList(s) == [kind |-> "list", num |-> 0, items |-> s]
PyOther == [kind |-> "other", num |-> 0, items |-> <<>>]
\* a list of numbers
PyRow(s) == PyList([i \in DOMAIN s |-> PyNum(s[i])])

\* --------------------------------------------------------- user functions
V(i) == [k |-> "var", i |-> i]
T(i) == [k |-> "tmp", i |-> i]
C(c) == [k |-> "const", i |-> c]
Ins(op, l, r) == [op |-> op, l |-> l, r |-> r]
Fn(ins, ret) == [ins |-> ins, ret |-> ret]

\* def func(x): return 4*x + 3
FLin == Fn(<<Ins("mul", C(4), V(1)), Ins("add", T(1), C(3))>>, T(2))
\* def func(x): return x[0]**2 + 3*x[1] + 5      (x**2 written x*x)
FVec == Fn(<<Ins("mul", V(1), V(1)), Ins("mul", C(3), V(2)),
             Ins("add", T(1), T(2)), Ins("add", T(3), C(5))>>, T(4))
\* def func2(x): return 10 + 2*x[1]
FSecond == Fn(<<Ins("mul", C(2), V(2)), Ins("add", C(10), T(1))>>, T(2))
\* x*x: the argument reaches the output along two edges
FSquare == Fn(<<Ins("mul", V(1), V(1))>>, T(1))
\* t = x + 1; return t*t: an intermediate consumed twice
FShared == Fn(<<Ins("add", V(1), C(1)), Ins("mul", T(1), T(1))>>, T(2))
\* return x: the output is the argument itself
FIdent == Fn(<<>>, V(1))
\* x[0]*x[1]: a product of two different arguments
FCross == Fn(<<Ins("mul", V(1), V(2))>>, T(1))
\* x[0]*x[1] + x[2]*x[2]
FThree == Fn(<<Ins("mul", V(1), V(2)), Ins("mul", V(3), V(3)),
               Ins("add", T(1), T(2))>>, T(3))

Functions == {FLin, FVec, FSecond, FSquare, FShared, FIdent, FCross, FThree}

Operands(fn) == {fn.ret} \cup {fn.ins[k].l : k \in DOMAIN fn.ins}
                         \cup {fn.ins[k].r : k \in DOMAIN fn.ins}
Arity(fn) ==
    LET used == {o.i : o \in {p \in Operands(fn) : p.k = "var"}}
    IN  CHOOSE m \in used : \A j \in used : j <= m

\* ------------------------------------------- plain real-valued evaluation
RECURSIVE RealOf(_, _, _)
RealOf(fn, o, xs) ==
    CASE o.k = "var" -> xs[o.i]
      [] o.k = "const" -> o.i
      [] o.k = "tmp" ->
            LET in == fn.ins[o.i]
                a == RealOf(fn, in.l, xs)
                b == RealOf(fn, in.r, xs)
            IN  IF in.op = "add" THEN a + b ELSE a * b

Value(fn, xs) == RealOf(fn, fn.ret, xs)

\* d(operand o)/d(x_v) at xs by the sum and product rules
RECURSIVE PartialOf(_, _, _, _)
PartialOf(fn, o, v, xs) ==
    CASE o.k = "var" -> IF o.i = v THEN 1 ELSE 0
      [] o.k = "const" -> 0
      [] o.k = "tmp" ->
            LET in == fn.ins[o.i]
                da == PartialOf(fn, in.l, v, xs)
                db == PartialOf(fn, in.r, v, xs)
            IN  IF in.op = "add" THEN da + db
                ELSE da * RealOf(fn, in.r, xs) + RealOf(fn, in.l, xs) * db

Partial(fn, v, xs) == PartialOf(fn, fn.ret, v, xs)

\* The paths of the data-flow graph from argument x_v to operand o: each is
\* the sequence of <<instruction, side>> steps walked from o back to x_v.
RECURSIVE PathsTo(_, _, _)
PathsTo(fn, o, v) ==
    CASE o.k = "var" -> IF o.i = v THEN {<<>>} ELSE {}
      [] o.k = "const" -> {}
      [] o.k = "tmp" ->
            {<<<<o.i, "l">>>> \o p : p \in PathsTo(fn, fn.ins[o.i].l, v)}
            \cup
            {<<<<o.i, "r">>>> \o p : p \in PathsTo(fn, fn.ins[o.i].r, v)}

Paths(fn, v) == PathsTo(fn, fn.ret, v)

\* local partial derivative of instruction st[1] with respect to side st[2]
StepWeight(fn, st, xs) ==
    LET in == fn.ins[st[1]]
    IN  IF in.op = "add" THEN 1
        ELSE IF st[2] = "l" THEN RealOf(fn, in.r, xs)
             ELSE RealOf(fn, in.l, xs)

RECURSIVE PathWeight(_, _, _)
PathWeight(fn, p, xs) ==
    IF p = <<>> THEN 1
    ELSE StepWeight(fn, Head(p), xs) * PathWeight(fn, Tail(p), xs)

RECURSIVE SumWeights(_, _, _)
SumWeights(fn, ps, xs) ==
    IF ps = {} THEN 0
    ELSE LET p == CHOOSE q \in ps : TRUE
         IN  PathWeight(fn, p, xs) + SumWeights(fn, ps \ {p}, xs)

PathSum(fn, v, xs) == SumWeights(fn, Paths(fn, v), xs)

\* ------------------------------------------------ forward kernel (fad.py)
DualNumber(real, dual) == [real |-> real, dual |-> dual]

\* a numeric literal combined with a DualNumber has tangent 0
AsDual(o, args, temps) ==
    CASE o.k = "var" -> args[o.i]
      [] o.k = "tmp" -> temps[o.i]
      [] o.k = "const" -> DualNumber(o.i, 0)

DualAdd(a, b) == DualNumber(a.real + b.real, a.dual + b.dual)
DualMul(a, b) == DualNumber(a.real * b.real, a.real * b.dual + a.dual * b.real)

\* the user function called on DualNumbers: instructions run in order
RECURSIVE RunDual(_, _, _)
RunDual(fn, args, temps) ==
    IF Len(temps) = Len(fn.ins) THEN AsDual(fn.ret, args, temps)
    ELSE LET in == fn.ins[Len(temps) + 1]
             a == AsDual(in.l, args, temps)
             b == AsDual(in.r, args, temps)
             z == IF in.op = "add" THEN DualAdd(a, b) ELSE DualMul(a, b)
         IN  RunDual(fn, args, Append(temps, z))

CallDual(fn, args) == RunDual(fn, args, <<>>)

\* ------------------------------------------------ reverse kernel (rad.py)
\* The heap of ReverseMode objects is a sequence; an object is its index.
ReverseMode(real) == [real |-> real, child |-> <<>>, gradient |-> None]

NewNode(ns, real) == Append(ns, ReverseMode(real))

\* operand o.child.append((weight, z)); a numeric literal records nothing
AddEdge(ns, o, weight, z) ==
    IF o.k = "const" THEN ns
    ELSE [ns EXCEPT ![o.i].child = Append(@, <<weight, z>>)]

\* operand resolved to a heap object (k = "var") or a literal
AsNode(o, args, temps) ==
    CASE o.k = "var" -> [k |-> "var", i |-> args[o.i]]
      [] o.k = "tmp" -> [k |-> "var", i |-> temps[o.i]]
      [] o.k = "const" -> o

NodeReal(ns, o) == IF o.k = "const" THEN o.i ELSE ns[o.i].real

\* z = ReverseMode(a.real + b.real); a.child.append((1, z)); b.child.append((1, z))
RevAdd(ns, a, b) ==
    LET z == Len(ns) + 1
        n1 == NewNode(ns, NodeReal(ns, a) + NodeReal(ns, b))
    IN  AddEdge(AddEdge(n1, a, 1, z), b, 1, z)

\* z = ReverseMode(a.real * b.real); a.child.append((b.real, z)); b.child.append((a.real, z))
RevMul(ns, a, b) ==
    LET z == Len(ns) + 1
        n1 == NewNode(ns, NodeReal(ns, a) * NodeReal(ns, b))
    IN  AddEdge(AddEdge(n1, a, NodeReal(ns, b), z), b, NodeReal(ns, a), z)

\* the user function called on ReverseMode objects: every instruction
\* allocates its result and records an edge on each of its inputs
RECURSIVE RunRev(_, _, _, _)
RunRev(fn, ns, args, temps) ==
    IF Len(temps) = Len(fn.ins)
    THEN [nodes |-> ns, z |-> AsNode(fn.ret, args, temps).i]
    ELSE LET in == fn.ins[Len(temps) + 1]
             a == AsNode(in.l, args, temps)
             b == AsNode(in.r, args, temps)
             n1 == IF in.op = "add" THEN RevAdd(ns, a, b) ELSE RevMul(ns, a, b)
         IN  RunRev(fn, n1, args, Append(temps, Len(ns) + 1))

CallRev(fn, ns, args) == RunRev(fn, ns, args, <<>>)

\* grad(): a set gradient is returned as it is; an unset one becomes the
\* sum over the recorded edges of weight * child.grad() and is cached
RECURSIVE grad(_, _), gradSum(_, _, _, _)
grad(ns, n) ==
    IF ns[n].gradient # None THEN [nodes |-> ns, val |-> ns[n].gradient[1]]
    ELSE LET r == gradSum(ns, ns[n].child, 1, 0)
         IN  [nodes |-> [r.nodes EXCEPT ![n].gradient = Some(r.val)],
              val |-> r.val]
gradSum(ns, ch, k, acc) ==
    IF k > Len(ch) THEN [nodes |-> ns, val |-> acc]
    ELSE LET g == grad(ns, ch[k][2])
         IN  gradSum(g.nodes, ch, k + 1, acc + ch[k][1] * g.val)

\* ------------------------------------------------------------------ state
VARIABLES
    f,                  \* first constructor argument, as the caller passed it
    var_list,           \* second constructor argument, as the caller passed it
    pc,                 \* position of the caller
    ad_attrs,           \* attributes assigned on the AutoDiff object so far
    ad_f,               \* AutoDiff.f
    ad_var_list,        \* AutoDiff.var_list
    ad_trace,           \* AutoDiff.trace
    ad_primal,          \* AutoDiff.primal
    ad_jacobian,        \* AutoDiff.jacobian
    ad_k,               \* position of `for f in self.f` in AutoDiff._compute
    ad_error,           \* exception that left AutoDiff.__init__, or "none"
    ad_got_primal,      \* value returned by AutoDiff.get_primal()
    ad_got_jacobian,    \* value returned by AutoDiff.get_jacobian()
    nodes,              \* heap of ReverseMode objects
    rm_len_var_list,    \* ReverseAD.len_var_list
    rm_trace,           \* ReverseAD.trace
    rm_jacobian,        \* ReverseAD.jacobian
    rm_jacobian_single, \* ReverseAD.jacobian_single
    rm_i,               \* position of `for i in range(len(self.f))`
    rm_error,           \* exception that left ReverseAD.__init__, or "none"
    rm_passed,          \* the objects handed to each function call so far
    rm_got_jacobian     \* value returned by ReverseAD.get_jacobian()

ad_vars == <<ad_attrs, ad_f, ad_var_list, ad_trace, ad_primal, ad_jacobian,
             ad_k, ad_error>>
ad_out == <<ad_got_primal, ad_got_jacobian>>
rm_vars == <<nodes, rm_len_var_list, rm_trace, rm_jacobian,
             rm_jacobian_single, rm_i, rm_error, rm_passed>>
vars == <<f, var_list, pc, ad_vars, ad_out, rm_vars, rm_got_jacobian>>

\* ----------------------------------------------------------------- inputs
SeqsUpTo(S, n) == UNION {[1..m -> S] : m \in 1..n}

PyCallable(fn) == [kind |-> "callable", fn |-> <<fn>>, items |-> <<>>]
PyFuncList(fns) == [kind |-> "list", fn |-> <<>>, items |-> fns]
PyNotFunc == [kind |-> "other", fn |-> <<>>, items |-> <<>>]

\* a list or ndarray of numbers, or a bare int or float, or anything else
VarInputs ==
    {PyList(xs) : xs \in SeqsUpTo(1..MaxVal, MaxVars)}
    \cup {PyNum(x) : x \in 1..MaxVal}
    \cup {PyOther}

\* a list or ndarray of functions, or a single function, or anything else
FInputs ==
    {PyFuncList(fns) : fns \in SeqsUpTo(Functions, MaxFuncs)}
    \cup {PyCallable(fn) : fn \in Functions}
    \cup {PyNotFunc}

NumVars(vl) == IF vl.kind = "list" THEN Len(vl.items) ELSE 1
PointOf(vl) == IF vl.kind = "list" THEN vl.items ELSE <<vl.num>>
FuncsOf(fa) == IF fa.kind = "list" THEN fa.items ELSE fa.fn

\* every function is defined on the point it is given
Applicable(fa, vl) ==
    IF vl.kind = "other" THEN Len(FuncsOf(fa)) <= 1
    ELSE \A j \in DOMAIN FuncsOf(fa) : Arity(FuncsOf(fa)[j]) <= NumVars(vl)

Init ==
    /\ f \in FInputs
    /\ var_list \in VarInputs
    /\ Applicable(f, var_list)
    /\ pc = "start"
    /\ ad_attrs = {}
    /\ ad_f = <<>>
    /\ ad_var_list = <<>>
    /\ ad_trace = <<>>
    /\ ad_primal = <<>>
    /\ ad_jacobian = <<>>
    /\ ad_k = 1
    /\ ad_error = "none"
    /\ ad_got_primal = None
    /\ ad_got_jacobian = None
    /\ nodes = <<>>
    /\ rm_len_var_list = 0
    /\ rm_trace = <<>>
    /\ rm_jacobian = <<>>
    /\ rm_jacobian_single = 0
    /\ rm_i = 1
    /\ rm_error = "none"
    /\ rm_passed = <<>>
    /\ rm_got_jacobian = None

\* ---------------------------------------------------------------- AutoDiff
\* str(self) reads self.f and self.var_list
StrSelf(attrs) ==
    IF {"f", "var_list"} \subseteq attrs THEN "ok" ELSE "AttributeError"

\* raise TypeError(f"... {print(self)} ..."): the message is built first
RaiseTypeError(attrs) ==
    IF StrSelf(attrs) = "ok" THEN "TypeError" ELSE StrSelf(attrs)

\* var_list = np.array(var_list) or np.array([var_list])
NormalizeVarList(vl) == IF vl.kind = "list" THEN vl.items ELSE <<vl.num>>

\* f = np.array(f) or np.array([f])
NormalizeF(fa) == IF fa.kind = "list" THEN fa.items ELSE fa.fn

\* for variable in var_list: trace.append(DualNumber(float(variable), 1))
InitTrace(vl) == [i \in DOMAIN vl |-> DualNumber(vl[i], 1)]

ADConstruct ==
    /\ pc = "start"
    /\ IF var_list.kind \notin {"list", "num"}
       THEN /\ ad_error' = RaiseTypeError(ad_attrs)
            /\ pc' = "error"
            /\ UNCHANGED <<ad_attrs, ad_f, ad_var_list, ad_trace>>
       ELSE IF f.kind \notin {"list", "callable"}
       THEN /\ ad_error' = RaiseTypeError(ad_attrs)
            /\ pc' = "error"
            /\ UNCHANGED <<ad_attrs, ad_f, ad_var_list, ad_trace>>
       ELSE /\ ad_f' = NormalizeF(f)
            /\ ad_var_list' = NormalizeVarList(var_list)
            /\ ad_trace' = InitTrace(NormalizeVarList(var_list))
            /\ ad_attrs' = {"f", "var_list", "len_var_list", "jacobian",
                            "primal", "trace"}
            /\ pc' = "ad_compute"
            /\ UNCHANGED ad_error
    /\ UNCHANGED <<f, var_list, ad_primal, ad_jacobian, ad_k, ad_out,
                   rm_vars, rm_got_jacobian>>

ad_len_var_list == Len(ad_var_list)

\* y = [DualNumber(0, 0)]*self.len_var_list; y[i] = self.trace[i]
SeedPass(trace, i) ==
    [j \in DOMAIN trace |-> IF j = i THEN trace[i] ELSE DualNumber(0, 0)]

\* dp = f(y).dual; updatedDual = DualNumber(value.real, dp);
\* tangent.append(updatedDual.dual)
Tangent(fn, trace, value) ==
    [i \in DOMAIN trace |->
        DualNumber(value.real, CallDual(fn, SeedPass(trace, i)).dual).dual]

\* the tangent stored where the value belongs
PrimalOf_Dual(value) == value.dual

\* self.primal.append(value.real)
PrimalOf(value) == value.real

ADAfterStep == IF ad_k = Len(ad_f) THEN "ad_ready" ELSE "ad_compute"

\* one turn of the loop with len_var_list == 1
ADComputeScalar ==
    /\ pc = "ad_compute"
    /\ ad_len_var_list = 1
    /\ LET value == CallDual(ad_f[ad_k], <<ad_trace[1]>>)
       IN  /\ ad_primal' = Append(ad_primal, PrimalOf(value))
           /\ ad_jacobian' = Append(ad_jacobian, PyNum(value.dual))
    /\ ad_k' = ad_k + 1
    /\ pc' = ADAfterStep
    /\ UNCHANGED <<f, var_list, ad_attrs, ad_f, ad_var_list, ad_trace,
                   ad_error, ad_out, rm_vars, rm_got_jacobian>>

\* one turn of the loop with len_var_list > 1
ADComputeVector ==
    /\ pc = "ad_compute"
    /\ ad_len_var_list # 1
    /\ LET value == CallDual(ad_f[ad_k], ad_trace)
       IN  /\ ad_primal' = Append(ad_primal, PrimalOf(value))
           /\ ad_jacobian' = Append(ad_jacobian,
                                    PyRow(Tangent(ad_f[ad_k], ad_trace, value)))
    /\ ad_k' = ad_k + 1
    /\ pc' = ADAfterStep
    /\ UNCHANGED <<f, var_list, ad_attrs, ad_f, ad_var_list, ad_trace,
                   ad_error, ad_out, rm_vars, rm_got_jacobian>>

ADGetPrimal ==
    /\ pc = "ad_ready"
    /\ ad_got_primal' = Some(ad_primal)
    /\ UNCHANGED <<f, var_list, pc, ad_vars, ad_got_jacobian, rm_vars,
                   rm_got_jacobian>>

ADGetJacobian ==
    /\ pc = "ad_ready"
    /\ ad_got_jacobian' = Some(ad_jacobian)
    /\ UNCHANGED <<f, var_list, pc, ad_vars, ad_got_primal, rm_vars,
                   rm_got_jacobian>>

\* --------------------------------------------------------------- ReverseAD
\* try: len(var_list)  except TypeError: 1
LenVarList(vl) == IF vl.kind = "list" THEN Len(vl.items) ELSE 1

\* for variable in var_list: trace.append(ReverseMode(float(variable)))
RECURSIVE AllocSeeds(_, _, _)
AllocSeeds(ns, xs, k) ==
    IF k > Len(xs) THEN ns ELSE AllocSeeds(NewNode(ns, xs[k]), xs, k + 1)

RConstruct ==
    /\ pc = "ad_ready"
    /\ rm_len_var_list' = LenVarList(var_list)
    /\ IF LenVarList(var_list) > 1
       THEN /\ nodes' = AllocSeeds(nodes, var_list.items, 1)
            /\ rm_trace' = [k \in 1..Len(var_list.items) |-> Len(nodes) + k]
       ELSE UNCHANGED <<nodes, rm_trace>>
    /\ pc' = "rm_compute"
    /\ UNCHANGED <<f, var_list, ad_vars, ad_out, rm_jacobian,
                   rm_jacobian_single, rm_i, rm_error, rm_passed,
                   rm_got_jacobian>>

\* the output node is left without its gradient
SeedRoot_Unset(ns, z) == ns

\* z.gradient = 1.0
SeedRoot(ns, z) == [ns EXCEPT ![z].gradient = Some(1)]

\* [trace.grad() for trace in self.trace]
RECURSIVE GradAll(_, _, _, _)
GradAll(ns, trace, k, vals) ==
    IF k > Len(trace) THEN [nodes |-> ns, vals |-> vals]
    ELSE LET g == grad(ns, trace[k])
         IN  GradAll(g.nodes, trace, k + 1, Append(vals, g.val))

\* only the gradients are unset; the edge lists are kept
ResetSeeds_KeepEdges(ns, trace) ==
    [n \in DOMAIN ns |->
        IF \E k \in DOMAIN trace : trace[k] = n
        THEN [ns[n] EXCEPT !.gradient = None]
        ELSE ns[n]]

\* only the edge lists are cleared; the gradients are kept
ResetSeeds_KeepGradient(ns, trace) ==
    [n \in DOMAIN ns |->
        IF \E k \in DOMAIN trace : trace[k] = n
        THEN [ns[n] EXCEPT !.child = <<>>]
        ELSE ns[n]]

\* the seed nodes are not reset at all
ResetSeeds_Skip(ns, trace) == ns

\* for trace in self.trace: trace.child = []; trace.gradient = None
ResetSeeds(ns, trace) ==
    [n \in DOMAIN ns |->
        IF \E k \in DOMAIN trace : trace[k] = n
        THEN [ns[n] EXCEPT !.child = <<>>, !.gradient = None]
        ELSE ns[n]]

\* x = ReverseMode(float(v)); z = fn(x); z.gradient = 1.0; x.grad()
SingleGrad(ns, fn, v) ==
    LET x == Len(ns) + 1
        r == CallRev(fn, NewNode(ns, v), <<x>>)
    IN  grad(SeedRoot(r.nodes, r.z), x)

RMAfterStep == IF rm_i = Len(f.items) THEN "rm_ready" ELSE "rm_compute"

\* len(self.f) on a function object
RComputeNotSized ==
    /\ pc = "rm_compute"
    /\ f.kind # "list"
    /\ rm_error' = "TypeError"
    /\ pc' = "error"
    /\ UNCHANGED <<f, var_list, ad_vars, ad_out, nodes, rm_len_var_list,
                   rm_trace, rm_jacobian, rm_jacobian_single, rm_i,
                   rm_passed, rm_got_jacobian>>

\* the branch isinstance(self.var_list, (int, float))
RComputeNumber ==
    /\ pc = "rm_compute"
    /\ f.kind = "list"
    /\ var_list.kind = "num"
    /\ IF Len(f.items) = 1
       THEN LET g == SingleGrad(nodes, f.items[1], var_list.num)
            IN  /\ nodes' = g.nodes
                /\ rm_jacobian_single' = g.val
                /\ rm_passed' = Append(rm_passed, <<Len(nodes) + 1>>)
                /\ pc' = "rm_ready"
                /\ UNCHANGED rm_error
       ELSE /\ rm_error' = "TypeError"
            /\ pc' = "error"
            /\ UNCHANGED <<nodes, rm_jacobian_single, rm_passed>>
    /\ UNCHANGED <<f, var_list, ad_vars, ad_out, rm_len_var_list, rm_trace,
                   rm_jacobian, rm_i, rm_got_jacobian>>

\* one turn of the loop of the branch self.len_var_list == 1
RComputeSingle ==
    /\ pc = "rm_compute"
    /\ f.kind = "list"
    /\ var_list.kind = "list"
    /\ rm_len_var_list = 1
    /\ LET g == SingleGrad(nodes, f.items[rm_i], var_list.items[1])
       IN  /\ nodes' = g.nodes
           /\ rm_jacobian' = Append(rm_jacobian, PyNum(g.val))
           /\ rm_passed' = Append(rm_passed, <<Len(nodes) + 1>>)
    /\ rm_i' = rm_i + 1
    /\ pc' = RMAfterStep
    /\ UNCHANGED <<f, var_list, ad_vars, ad_out, rm_len_var_list, rm_trace,
                   rm_jacobian_single, rm_error, rm_got_jacobian>>

\* one turn of the loop of the branch self.len_var_list > 1
RComputeMulti ==
    /\ pc = "rm_compute"
    /\ f.kind = "list"
    /\ var_list.kind = "list"
    /\ rm_len_var_list > 1
    /\ LET r == CallRev(f.items[rm_i], nodes, rm_trace)
           g == GradAll(SeedRoot(r.nodes, r.z), rm_trace, 1, <<>>)
       IN  /\ rm_jacobian' = Append(rm_jacobian, PyRow(g.vals))
           /\ nodes' = ResetSeeds(g.nodes, rm_trace)
           /\ rm_passed' = Append(rm_passed, rm_trace)
    /\ rm_i' = rm_i + 1
    /\ pc' = RMAfterStep
    /\ UNCHANGED <<f, var_list, ad_vars, ad_out, rm_len_var_list, rm_trace,
                   rm_jacobian_single, rm_error, rm_got_jacobian>>

\* the rows' entries taken one column after the other
Flatten_ColumnMajor(jac) ==
    IF jac = <<>> \/ jac[1].kind # "list" THEN jac
    ELSE LET rows == Len(jac)
             cols == Len(jac[1].items)
         IN  [m \in 1..(rows * cols) |->
                 jac[((m - 1) % rows) + 1].items[((m - 1) \div rows) + 1]]

\* np.array(jac).flatten().tolist(): a list of numbers is left as it is,
\* a list of rows becomes the rows' entries one row after the other
RECURSIVE Flatten(_)
Flatten(jac) ==
    IF jac = <<>> THEN <<>>
    ELSE IF Head(jac).kind = "list" THEN Head(jac).items \o Flatten(Tail(jac))
    ELSE <<Head(jac)>> \o Flatten(Tail(jac))

RGetJacobian ==
    /\ pc = "rm_ready"
    /\ IF var_list.kind = "num"
       THEN /\ rm_got_jacobian' = Some(PyNum(rm_jacobian_single))
            /\ UNCHANGED rm_jacobian
       ELSE /\ rm_jacobian' = Flatten(rm_jacobian)
            /\ rm_got_jacobian' = Some(PyList(Flatten(rm_jacobian)))
    /\ UNCHANGED <<f, var_list, pc, ad_vars, ad_out, nodes, rm_len_var_list,
                   rm_trace, rm_jacobian_single, rm_i, rm_error, rm_passed>>

\* ----------------------------------------------------------- specification
Next ==
    \/ ADConstruct
    \/ ADComputeScalar
    \/ ADComputeVector
    \/ ADGetPrimal
    \/ ADGetJacobian
    \/ RConstruct
    \/ RComputeNotSized
    \/ RComputeNumber
    \/ RComputeSingle
    \/ RComputeMulti
    \/ RGetJacobian

Spec == Init /\ [][Next]_vars

\* ------------------------------------------------------ reading the state
NFuncs == Len(FuncsOf(f))
NVars == NumVars(var_list)
Point == PointOf(var_list)
FnAt(j) == FuncsOf(f)[j]

\* number of functions ReverseAD._compute has finished
RMDone ==
    IF var_list.kind = "num" THEN (IF pc = "rm_ready" THEN 1 ELSE 0)
    ELSE rm_i - 1

\* the gradient ReverseAD holds for function j and variable i
RMEntry(j, i) ==
    IF var_list.kind = "num" THEN rm_jacobian_single
    ELSE IF rm_jacobian[1].kind = "list" THEN rm_jacobian[j].items[i].num
    ELSE rm_jacobian[(j - 1) * NVars + i].num

\* the derivative AutoDiff.get_jacobian() returned for function j, variable i
ADReported(j, i) ==
    LET row == ad_got_jacobian[1][j]
    IN  IF row.kind = "list" THEN row.items[i].num ELSE row.num

\* the gradient ReverseAD.get_jacobian() returned for function j, variable i
RMReported(j, i) ==
    LET got == rm_got_jacobian[1]
    IN  IF got.kind = "num" THEN got.num
        ELSE got.items[(j - 1) * NVars + i].num

SeedsClean ==
    \A k \in DOMAIN rm_trace :
        /\ nodes[rm_trace[k]].child = <<>>
        /\ nodes[rm_trace[k]].gradient = None

\* the Jacobian row of fn computed on a heap that holds nothing but newly
\* built seed nodes
RowAlone(fn, xs) ==
    LET tr == [k \in 1..Len(xs) |-> k]
        r == CallRev(fn, AllocSeeds(<<>>, xs, 1), tr)
    IN  GradAll(SeedRoot(r.nodes, r.z), tr, 1, <<>>).vals

\* ------------------------------------------------------------------ claims

\* C1: with more than one variable, every Jacobian entry AutoDiff stores for
\* function j and variable i is the partial derivative of f_j with respect to
\* x_i at the supplied point, and pass i runs f_j on the supplied primal
\* values with tangent 1 on coordinate i and 0 on every other coordinate.
C1_ForwardJacobianIsPartial ==
    ad_len_var_list > 1 =>
        /\ \A j \in DOMAIN ad_jacobian : \A i \in 1..ad_len_var_list :
              ad_jacobian[j].items[i].num = Partial(ad_f[j], i, ad_var_list)
        /\ \A i \in 1..ad_len_var_list :
              SeedPass(ad_trace, i) =
                 [k \in 1..ad_len_var_list |->
                     DualNumber(ad_var_list[k], IF k = i THEN 1 ELSE 0)]

\* C2: in ReverseAD with more than one variable, the row stored for every
\* finished function equals the row of that function computed alone on clean
\* seed nodes, and whenever the next function is about to be invoked every
\* seed node has an empty edge list and an unset gradient.
C2_RowIndependentOfEarlierFunctions ==
    (f.kind = "list" /\ rm_len_var_list > 1) =>
        /\ \A j \in 1..RMDone : \A i \in 1..NVars :
              RMEntry(j, i) = RowAlone(FnAt(j), Point)[i]
        /\ pc \in {"rm_compute", "rm_ready"} => SeedsClean

\* a second function has run on the seeds a first function left edges on
C2_Witness ==
    /\ f.kind = "list" /\ rm_len_var_list > 1 /\ RMDone >= 2
    /\ \E i \in 1..NVars :
          /\ Paths(FnAt(1), i) # {}
          /\ RMEntry(1, i) # RMEntry(2, i)

\* C3: when a variable reaches the output of a function along two or more
\* paths, the gradient ReverseAD holds for it is the sum over those paths of
\* the product of the local partial derivatives along the path, each path
\* counted once.
C3_DiamondGradientIsPathSum ==
    f.kind = "list" =>
        \A j \in 1..RMDone : \A i \in 1..NVars :
            Cardinality(Paths(FnAt(j), i)) >= 2 =>
                RMEntry(j, i) = PathSum(FnAt(j), i, Point)

\* an intermediate consumed twice lies between the seed and the output
C3_Witness ==
    /\ f.kind = "list" /\ rm_len_var_list = 1 /\ RMDone >= 1
    /\ FnAt(1) = FShared
    /\ Cardinality(Paths(FnAt(1), 1)) = 2
    /\ RMEntry(1, 1) = 2 * (Point[1] + 1)

\* C4: once both drivers have reported, AutoDiff's derivative and
\* ReverseAD's gradient agree for every function and every variable.
C4_ForwardEqualsReverse ==
    (ad_got_jacobian # None /\ rm_got_jacobian # None) =>
        \A j \in 1..NFuncs : \A i \in 1..NVars :
            ADReported(j, i) = RMReported(j, i)

\* C5: AutoDiff.get_jacobian() returns one row per function, and every row
\* is a list with one number per variable.
C5_ForwardJacobianIsTwoDimensional ==
    ad_got_jacobian # None =>
        /\ Len(ad_got_jacobian[1]) = NFuncs
        /\ \A j \in 1..NFuncs :
              /\ ad_got_jacobian[1][j].kind = "list"
              /\ Len(ad_got_jacobian[1][j].items) = NVars

\* C6: for functions and variables given as arrays, ReverseAD.get_jacobian()
\* returns a flat list of #functions * #variables numbers whose element
\* (j-1)*V + i (counting from 1) is the partial derivative of function j
\* with respect to variable i at the supplied point.
C6_ReverseJacobianFlatRowMajor ==
    (rm_got_jacobian # None /\ var_list.kind = "list") =>
        /\ rm_got_jacobian[1].kind = "list"
        /\ Len(rm_got_jacobian[1].items) = NFuncs * NVars
        /\ \A j \in 1..NFuncs : \A i \in 1..NVars :
              rm_got_jacobian[1].items[(j - 1) * NVars + i] =
                 PyNum(Partial(FnAt(j), i, Point))

\* two functions of two variables whose Jacobian is not symmetric
C6_Witness ==
    /\ rm_got_jacobian # None /\ var_list.kind = "list"
    /\ NFuncs = 2 /\ NVars = 2
    /\ rm_got_jacobian[1].items[2] # rm_got_jacobian[1].items[3]

\* C7: AutoDiff.get_primal() returns one number per function, in the order
\* of the functions, each the function's value at the supplied point.
C7_PrimalIsFunctionValue ==
    ad_got_primal # None =>
        /\ Len(ad_got_primal[1]) = NFuncs
        /\ \A j \in 1..NFuncs : ad_got_primal[1][j] = Value(FnAt(j), Point)

\* two functions of two variables with different values
C7_Witness ==
    /\ ad_got_primal # None
    /\ NFuncs = 2 /\ NVars = 2
    /\ ad_got_primal[1][1] # ad_got_primal[1][2]

\* C8: when var_list is not a list, ndarray, int or float, or f is not
\* callable, a list or an ndarray, the constructor of AutoDiff ends with a
\* TypeError and computes nothing; it ends with no other exception.
C8_ConstructorRaisesTypeError ==
    /\ ad_error \in {"none", "TypeError"}
    /\ (pc # "start" /\ (var_list.kind = "other" \/ f.kind = "other")) =>
          /\ ad_error = "TypeError"
          /\ ad_primal = <<>>
          /\ ad_jacobian = <<>>

\* C9: in ReverseAD with more than one variable, a variable no path connects
\* to the output of a function gets the entry 0 in that function's row, and
\* the entries of the variables the function uses are their partial
\* derivatives.
C9_UnusedVariableYieldsZero ==
    (f.kind = "list" /\ rm_len_var_list > 1) =>
        \A j \in 1..RMDone : \A i \in 1..NVars :
            RMEntry(j, i) = IF Paths(FnAt(j), i) = {} THEN 0
                            ELSE Partial(FnAt(j), i, Point)

\* the second function leaves out a variable the first one used
C9_Witness ==
    /\ f.kind = "list" /\ rm_len_var_list > 1 /\ RMDone >= 2
    /\ \E i \in 1..NVars :
          /\ Paths(FnAt(2), i) = {}
          /\ Paths(FnAt(1), i) # {}
          /\ RMEntry(1, i) # 0
          /\ RMEntry(2, i) = 0

\* C10: no seed node handed to one function is handed to another function,
\* for a single-variable and for a multi-variable point alike.
C10_FreshSeedsPerFunction ==
    \A j \in DOMAIN rm_passed : \A k \in DOMAIN rm_passed :
        j # k =>
            {rm_passed[j][a] : a \in DOMAIN rm_passed[j]}
            \cap {rm_passed[k][b] : b \in DOMAIN rm_passed[k]} = {}

\* C10 (amended): with a single variable every function is handed a seed
\* node no other function was handed; with more than one variable every
\* function is handed the seed nodes built by the constructor, which have
\* an empty edge list and an unset gradient whenever a function is about to
\* be invoked.
C10_SeedsFreshOrReset ==
    /\ rm_len_var_list = 1 => C10_FreshSeedsPerFunction
    /\ rm_len_var_list > 1 =>
          /\ \A j \in DOMAIN rm_passed : rm_passed[j] = rm_trace
          /\ (pc = "rm_compute" /\ f.kind = "list") => SeedsClean

\* the second of two functions is about to run on seeds the first one used
C10_Witness ==
    /\ rm_len_var_list > 1 /\ pc = "rm_compute" /\ f.kind = "list"
    /\ Len(rm_passed) = 1
    /\ \E i \in 1..NVars : Paths(FnAt(1), i) # {}

====
